---- MODULE Spec2Model ----
(***************************************************************************)
(* Model of the sandboxed file tools of ms_ai_agent_tool                   *)
(* (ms_ai_agent_sample/tool_modules/file_tools.py) together with the       *)
(* launcher steps of core_modules/agent_util.py that set the working       *)
(* directory and the ALLOW_OUTSIDE_MODIFICATIONS environment variable.     *)
(*                                                                         *)
(* A Python str is a sequence of one-character strings, so that prefix     *)
(* tests, splitting, newline translation and case folding are computed     *)
(* character by character as the interpreter computes them.                *)
(* An Optional[T] value is <<>> for None and <<v>> for a value v.          *)
(***************************************************************************)
EXTENDS Integers, Sequences, FiniteSets, TLC

VARIABLES
    fs,        \* the file system: node id (sequence of names) -> entry
    environ,   \* os.environ restricted to the two variables the tools read
    cwd,       \* the process working directory, as os.getcwd() returns it
    cwdLive,   \* FALSE once the working directory itself has been removed
    phase,     \* "start" before async_main has configured the process, then "run"
    ret,       \* the last tool call: operation, arguments and outcome
    tasks      \* the tool calls running on concurrent threads, each at its
               \* check or its act step, and the file system they started on

vars == <<fs, environ, cwd, cwdLive, phase, ret, tasks>>

None == <<>>
Some(v) == <<v>>

----------------------------------------------------------------------------
(* Strings *)

Dot == <<".">>
DotDot == <<".", ".">>
SlashStr == <<"/">>
TrueStr == <<"t", "r", "u", "e">>
FalseStr == <<"f", "a", "l", "s", "e">>

\* str.startswith
startswith(s, prefix) ==
    /\ Len(prefix) <= Len(s)
    /\ SubSeq(s, 1, Len(prefix)) = prefix

\* str.lower on the characters the model uses
lowerChar(c) ==
    CASE c = "A" -> "a"
      [] c = "B" -> "b"
      [] c = "T" -> "t"
      [] OTHER -> c

lower(s) == [i \in 1..Len(s) |-> lowerChar(s[i])]

\* str.split("/")
RECURSIVE splitFrom(_, _)
splitFrom(s, cur) ==
    IF s = <<>> THEN <<cur>>
    ELSE IF Head(s) = "/" THEN <<cur>> \o splitFrom(Tail(s), <<>>)
    ELSE splitFrom(Tail(s), Append(cur, Head(s)))

split(s) == splitFrom(s, <<>>)

\* "/".join(comps)
RECURSIVE joinSlash(_)
joinSlash(comps) ==
    IF comps = <<>> THEN <<>>
    ELSE IF Len(comps) = 1 THEN comps[1]
    ELSE comps[1] \o SlashStr \o joinSlash(Tail(comps))

----------------------------------------------------------------------------
(* posixpath *)

isabs(path) == startswith(path, SlashStr)

\* posixpath.join(a, p) for one added part
join(a, p) ==
    IF isabs(p) THEN p
    ELSE IF a = <<>> \/ a[Len(a)] = "/" THEN a \o p
    ELSE a \o SlashStr \o p

\* the component loop of posixpath.normpath
RECURSIVE normComps(_, _, _)
normComps(comps, acc, initialSlashes) ==
    IF comps = <<>> THEN acc
    ELSE LET c == Head(comps)
             rest == Tail(comps)
         IN IF c = <<>> \/ c = Dot
            THEN normComps(rest, acc, initialSlashes)
            ELSE IF \/ c # DotDot
                    \/ (initialSlashes = 0 /\ acc = <<>>)
                    \/ (acc # <<>> /\ acc[Len(acc)] = DotDot)
            THEN normComps(rest, Append(acc, c), initialSlashes)
            ELSE IF acc # <<>>
            THEN normComps(rest, SubSeq(acc, 1, Len(acc) - 1), initialSlashes)
            ELSE normComps(rest, acc, initialSlashes)

\* posixpath.normpath: collapses "", "." and ".." components; POSIX keeps
\* exactly two leading slashes distinct from one
normpath(path) ==
    IF path = <<>> THEN Dot
    ELSE LET initialSlashes ==
                 IF ~startswith(path, SlashStr) THEN 0
                 ELSE IF /\ startswith(path, <<"/", "/">>)
                         /\ ~startswith(path, <<"/", "/", "/">>)
                      THEN 2
                      ELSE 1
             body == joinSlash(normComps(split(path), <<>>, initialSlashes))
             lead == [i \in 1..initialSlashes |-> "/"]
             res == lead \o body
         IN IF res = <<>> THEN Dot ELSE res

\* posixpath.abspath, given what os.getcwd() returns
abspath(path) == normpath(IF isabs(path) THEN path ELSE join(cwd, path))

\* os.getcwd() raises once the working directory has been removed, and
\* abspath calls it exactly for relative paths
abspathRaises(path) == ~isabs(path) /\ ~cwdLive

\* posixpath.split: (head, tail) around the last slash, head stripped of
\* trailing slashes unless it is all slashes
RECURSIVE rstripSlash(_)
rstripSlash(s) ==
    IF s # <<>> /\ s[Len(s)] = "/" THEN rstripSlash(SubSeq(s, 1, Len(s) - 1)) ELSE s

lastSlash(s) ==
    LET idx == {i \in 1..Len(s) : s[i] = "/"}
    IN IF idx = {} THEN 0 ELSE CHOOSE i \in idx : \A j \in idx : j <= i

pathSplit(p) ==
    LET i == lastSlash(p)
        head == SubSeq(p, 1, i)
        tail == SubSeq(p, i + 1, Len(p))
    IN [head |-> IF rstripSlash(head) = <<>> THEN head ELSE rstripSlash(head),
        tail |-> tail]

\* os.path.basename
basename(p) == SubSeq(p, lastSlash(p) + 1, Len(p))

----------------------------------------------------------------------------
(* The file system *)

Absent == [kind |-> "absent", data |-> <<>>]
Dir == [kind |-> "dir", data |-> <<>>]
File(d) == [kind |-> "file", data |-> d]

Root == <<>>

\* what kind of entry a node is; the root directory always exists
kindOf(f, n) ==
    IF n = Root THEN "dir"
    ELSE IF n \in DOMAIN f THEN f[n].kind
    ELSE "absent"

parentOf(n) == IF n = Root THEN Root ELSE SubSeq(n, 1, Len(n) - 1)

childrenOf(f, n) ==
    {c \in DOMAIN f : Len(c) = Len(n) + 1 /\ parentOf(c) = n /\ f[c].kind # "absent"}

\* the node a normalized absolute path names
nodeOfAbs(a) == SelectSeq(split(a), LAMBDA c : c # <<>>)

Found(n) == [st |-> "ok", node |-> n]
Creatable(n) == [st |-> "new", node |-> n]
NoEntry == [st |-> "err", node |-> Root]

\* the kernel's path walk, one component at a time: every component but
\* the last must be an existing directory
RECURSIVE walk(_, _, _)
walk(f, r, comps) ==
    IF comps = <<>> THEN r
    ELSE LET c == Head(comps)
             rest == Tail(comps)
         IN IF r.st # "ok" \/ kindOf(f, r.node) # "dir" THEN NoEntry
            ELSE IF c = <<>> \/ c = Dot THEN walk(f, r, rest)
            ELSE IF c = DotDot THEN walk(f, Found(parentOf(r.node)), rest)
            ELSE LET child == Append(r.node, c)
                 IN IF kindOf(f, child) = "absent"
                    THEN walk(f, Creatable(child), rest)
                    ELSE walk(f, Found(child), rest)

\* path resolution as the system calls behind os.stat, open, mkdir, rmdir
\* and unlink do it: relative paths start at the working directory
resolve(f, path) ==
    IF path = <<>> THEN NoEntry
    ELSE IF isabs(path) THEN walk(f, Found(Root), split(path))
    ELSE IF ~cwdLive THEN NoEntry
    ELSE walk(f, Found(nodeOfAbs(cwd)), split(path))

\* os.path.exists / isfile / isdir
exists(f, path) == resolve(f, path).st = "ok"
isfile(f, path) ==
    LET r == resolve(f, path) IN r.st = "ok" /\ kindOf(f, r.node) = "file"
isdir(f, path) ==
    LET r == resolve(f, path) IN r.st = "ok" /\ kindOf(f, r.node) = "dir"

\* Results of the os-level calls: err is "" on success, else the exception
Done(f) == [err |-> "", fs |-> f]
Failed(e, f) == [err |-> e, fs |-> f]

\* os.mkdir
mkdir(f, path) ==
    LET r == resolve(f, path)
    IN IF r.st = "ok" THEN Failed("FileExistsError", f)
       ELSE IF r.st = "err" THEN Failed("OSError", f)
       ELSE Done([f EXCEPT ![r.node] = Dir])

\* os.makedirs(name): creates the missing parents first, tolerating a
\* parent that turns out to exist, then the leaf
RECURSIVE makedirs(_, _)
makedirs(f, name) ==
    LET s1 == pathSplit(name)
        s == IF s1.tail = <<>> THEN pathSplit(s1.head) ELSE s1
    IN IF s.head # <<>> /\ s.tail # <<>> /\ ~exists(f, s.head)
       THEN LET sub == makedirs(f, s.head)
            IN IF sub.err \notin {"", "FileExistsError"} THEN sub
               ELSE IF s.tail = Dot THEN Done(sub.fs)
               ELSE mkdir(sub.fs, name)
       ELSE mkdir(f, name)

\* os.rmdir: only an existing, empty directory other than the root
rmdir(f, path) ==
    LET r == resolve(f, path)
    IN IF r.st # "ok" \/ kindOf(f, r.node) # "dir" THEN Failed("OSError", f)
       ELSE IF r.node = Root \/ childrenOf(f, r.node) # {} THEN Failed("OSError", f)
       ELSE Done([f EXCEPT ![r.node] = Absent])

\* os.remove
remove(f, path) ==
    LET r == resolve(f, path)
    IN IF r.st # "ok" \/ kindOf(f, r.node) # "file" THEN Failed("OSError", f)
       ELSE Done([f EXCEPT ![r.node] = Absent])

\* text-mode output: newline=None writes each "\n" as os.linesep
linesep == <<"\n">>

RECURSIVE encodeNewlines(_)
encodeNewlines(text) ==
    IF text = <<>> THEN <<>>
    ELSE (IF Head(text) = "\n" THEN linesep ELSE <<Head(text)>>)
         \o encodeNewlines(Tail(text))

\* text-mode input: universal newlines turn "\r\n" and a lone "\r" into "\n"
RECURSIVE decodeNewlines(_)
decodeNewlines(data) ==
    IF data = <<>> THEN <<>>
    ELSE IF Head(data) = "\r"
    THEN <<"\n">> \o decodeNewlines(IF Len(data) >= 2 /\ data[2] = "\n"
                                     THEN SubSeq(data, 3, Len(data))
                                     ELSE Tail(data))
    ELSE <<Head(data)>> \o decodeNewlines(Tail(data))

\* open(path, 'w' | 'a') followed by file.write(content)
openWrite(f, path, mode, content) ==
    LET r == resolve(f, path)
        bytes == encodeNewlines(content)
    IN IF r.st = "err" THEN Failed("OSError", f)
       ELSE IF r.st = "new" THEN Done([f EXCEPT ![r.node] = File(bytes)])
       ELSE IF kindOf(f, r.node) # "file" THEN Failed("OSError", f)
       ELSE IF mode = "a" THEN Done([f EXCEPT ![r.node] = File(f[r.node].data \o bytes)])
       ELSE Done([f EXCEPT ![r.node] = File(bytes)])

\* file.readlines() / iterating the file: the decoded text cut after each "\n"
RECURSIVE linesFrom(_, _)
linesFrom(text, cur) ==
    IF text = <<>> THEN (IF cur = <<>> THEN <<>> ELSE <<cur>>)
    ELSE IF Head(text) = "\n"
    THEN <<Append(cur, "\n")>> \o linesFrom(Tail(text), <<>>)
    ELSE linesFrom(Tail(text), Append(cur, Head(text)))

readlines(f, path) == linesFrom(decodeNewlines(f[resolve(f, path).node].data), <<>>)

\* ''.join(lines)
RECURSIVE concat(_)
concat(lines) == IF lines = <<>> THEN <<>> ELSE Head(lines) \o concat(Tail(lines))

----------------------------------------------------------------------------
(* Outcomes of a tool call *)

\* An outcome carries the returned value in the field of its type: val
\* for a bool, text for a str, lines for the FileLineModel list and
\* entries for the FileModel list
NoValue == [tag |-> "none", exc |-> "", msg |-> "", val |-> FALSE,
            text |-> <<>>, lines |-> <<>>, entries |-> <<>>]
Return(v) == [NoValue EXCEPT !.tag = "return", !.val = v]
ReturnText(t) == [NoValue EXCEPT !.tag = "return", !.text = t]
ReturnLines(l) == [NoValue EXCEPT !.tag = "return", !.lines = l]
ReturnEntries(e) == [NoValue EXCEPT !.tag = "return", !.entries = e]
Raise(e, m) == [NoValue EXCEPT !.tag = "raise", !.exc = e, !.msg = m]

OutsideMsg == "Outside file modification is not allowed"
SandboxViolation == Raise("ValueError", OutsideMsg)
NotAFile == Raise("ValueError", "is not a valid file")
NotADirectory == Raise("ValueError", "is not a valid directory")
IOFailure == Raise("OSError", "")

\* os.getenv(name, default)
getenv(name, default) == IF environ[name] = None THEN default ELSE environ[name][1]

----------------------------------------------------------------------------
(* file_tools.py *)

\* Variant: the candidate path is compared as given, not made absolute
check_without_abspath(file_path) ==
    LET allow_outside_modification ==
            lower(getenv("ALLOW_OUTSIDE_MODIFICATIONS", FalseStr))
    IN IF allow_outside_modification = TrueStr THEN "pass"
       ELSE LET pwd == getenv("PWD", Dot)
            IN IF abspathRaises(pwd) THEN "OSError"
               ELSE IF startswith(file_path, abspath(pwd)) THEN "pass"
               ELSE "ValueError"

\* Variant: the verdict given to the previous mutating call is kept and
\* given again, the environment being read only for the first call
check_verdict_kept(file_path) ==
    IF ret.op # "none"
    THEN (IF ret.out = SandboxViolation THEN "ValueError" ELSE "pass")
    ELSE LET allow_outside_modification ==
                 lower(getenv("ALLOW_OUTSIDE_MODIFICATIONS", FalseStr))
         IN IF allow_outside_modification = TrueStr THEN "pass"
            ELSE IF abspathRaises(file_path) THEN "OSError"
            ELSE LET pwd == getenv("PWD", Dot)
                 IN IF abspathRaises(pwd) THEN "OSError"
                    ELSE IF startswith(abspath(file_path), abspath(pwd)) THEN "pass"
                    ELSE "ValueError"

\* check_allow_outside_modification: "pass" when it returns, else the
\* exception it raises
check_allow_outside_modification(file_path) ==
    LET allow_outside_modification ==
            lower(getenv("ALLOW_OUTSIDE_MODIFICATIONS", FalseStr))
    IN IF allow_outside_modification = TrueStr THEN "pass"
       ELSE IF abspathRaises(file_path) THEN "OSError"
       ELSE LET pwd == getenv("PWD", Dot)
            IN IF abspathRaises(pwd) THEN "OSError"
               ELSE IF startswith(abspath(file_path), abspath(pwd)) THEN "pass"
               ELSE "ValueError"

\* what a mutating tool does when the check did not pass
guardOutcome(g, f) ==
    [out |-> IF g = "ValueError" THEN SandboxViolation ELSE IOFailure, fs |-> f]

write_to_file(file_path, content, append) ==
    LET g == check_allow_outside_modification(file_path)
    IN IF g # "pass" THEN guardOutcome(g, fs)
       ELSE LET w == openWrite(fs, file_path, IF append THEN "a" ELSE "w", content)
            IN [out |-> IF w.err # "" THEN IOFailure ELSE Return(TRUE), fs |-> w.fs]

\* Variant: the existence test comes before the sandbox check
delete_file_exists_first(file_path) ==
    IF ~isfile(fs, file_path) THEN [out |-> Return(FALSE), fs |-> fs]
    ELSE LET g == check_allow_outside_modification(file_path)
         IN IF g # "pass" THEN guardOutcome(g, fs)
            ELSE LET d == remove(fs, file_path)
                 IN [out |-> IF d.err # "" THEN IOFailure ELSE Return(TRUE), fs |-> d.fs]

delete_file(file_path) ==
    LET g == check_allow_outside_modification(file_path)
    IN IF g # "pass" THEN guardOutcome(g, fs)
       ELSE IF ~isfile(fs, file_path) THEN [out |-> Return(FALSE), fs |-> fs]
       ELSE LET d == remove(fs, file_path)
            IN [out |-> IF d.err # "" THEN IOFailure ELSE Return(TRUE), fs |-> d.fs]

\* Variant: only an existing directory counts as "already exists"
create_directory_isdir(directory_path) ==
    LET g == check_allow_outside_modification(directory_path)
    IN IF g # "pass" THEN guardOutcome(g, fs)
       ELSE IF isdir(fs, directory_path) THEN [out |-> Return(FALSE), fs |-> fs]
       ELSE LET m == makedirs(fs, directory_path)
            IN [out |-> IF m.err # "" THEN IOFailure ELSE Return(TRUE), fs |-> m.fs]

create_directory(directory_path) ==
    LET g == check_allow_outside_modification(directory_path)
    IN IF g # "pass" THEN guardOutcome(g, fs)
       ELSE IF exists(fs, directory_path) THEN [out |-> Return(FALSE), fs |-> fs]
       ELSE LET m == makedirs(fs, directory_path)
            IN [out |-> IF m.err # "" THEN IOFailure ELSE Return(TRUE), fs |-> m.fs]

\* Variant: a failing os.rmdir is caught and reported as False
delete_directory_swallow(directory_path) ==
    LET g == check_allow_outside_modification(directory_path)
    IN IF g # "pass" THEN guardOutcome(g, fs)
       ELSE IF ~isdir(fs, directory_path) THEN [out |-> Return(FALSE), fs |-> fs]
       ELSE LET d == rmdir(fs, directory_path)
            IN [out |-> Return(d.err = ""), fs |-> d.fs]

delete_directory(directory_path) ==
    LET g == check_allow_outside_modification(directory_path)
    IN IF g # "pass" THEN guardOutcome(g, fs)
       ELSE IF ~isdir(fs, directory_path) THEN [out |-> Return(FALSE), fs |-> fs]
       ELSE LET d == rmdir(fs, directory_path)
            IN [out |-> IF d.err # "" THEN IOFailure ELSE Return(TRUE), fs |-> d.fs]

\* Python's lines[i:] and lines[:j], negative indices counted from the end
sliceFrom(lines, i) ==
    LET n == Len(lines)
        k == IF i < 0 THEN (IF i + n < 0 THEN 0 ELSE i + n) ELSE (IF i > n THEN n ELSE i)
    IN SubSeq(lines, k + 1, n)

sliceTo(lines, j) ==
    LET n == Len(lines)
        k == IF j < 0 THEN (IF j + n < 0 THEN 0 ELSE j + n) ELSE (IF j > n THEN n ELSE j)
    IN SubSeq(lines, 1, k)

read_file(file_path, start_line, end_line) ==
    IF ~isfile(fs, file_path) THEN NotAFile
    ELSE LET lines == readlines(fs, file_path)
             lines1 == IF start_line # None
                       THEN sliceFrom(lines, start_line[1] - 1)
                       ELSE lines
             lines2 == IF end_line # None THEN sliceTo(lines1, end_line[1]) ELSE lines1
         IN ReturnText(concat(lines2))

\* re.search(re.escape(needle), line): the escaped pattern is the literal
\* text, tried at each position from the left
RECURSIVE reSearchEscaped(_, _)
reSearchEscaped(needle, line) ==
    IF Len(line) < Len(needle) THEN FALSE
    ELSE IF startswith(line, needle) THEN TRUE
    ELSE reSearchEscaped(needle, Tail(line))

FileLineModel(file_path, line_number, content) ==
    [name |-> basename(file_path), path |-> file_path,
     line_number |-> line_number, content |-> content]

\* the loop of grep_in_file over enumerate(file, start=1), from line k on
RECURSIVE grepLoop(_, _, _, _, _)
grepLoop(file_path, lines, k, search_string, case_sensitive) ==
    IF k > Len(lines) THEN <<>>
    ELSE LET original_line == lines[k]
             line == IF case_sensitive THEN original_line ELSE lower(original_line)
             needle == IF case_sensitive THEN search_string ELSE lower(search_string)
         IN (IF reSearchEscaped(needle, line)
             THEN <<FileLineModel(file_path, k, original_line)>>
             ELSE <<>>)
            \o grepLoop(file_path, lines, k + 1, needle, case_sensitive)

grep_in_file(file_path, search_string, case_sensitive) ==
    IF ~isfile(fs, file_path) THEN NotAFile
    ELSE ReturnLines(grepLoop(file_path, readlines(fs, file_path), 1,
                         search_string, case_sensitive))

\* fnmatch.fnmatch on POSIX for patterns of literals, "*" and "?"
RECURSIVE fnmatch(_, _)
fnmatch(name, pat) ==
    IF pat = <<>> THEN name = <<>>
    ELSE IF Head(pat) = "*"
    THEN fnmatch(name, Tail(pat)) \/ (name # <<>> /\ fnmatch(Tail(name), pat))
    ELSE /\ name # <<>>
         /\ (Head(pat) = "?" \/ Head(pat) = Head(name))
         /\ fnmatch(Tail(name), Tail(pat))

Mtime == "mtime"

FileModel(f, directory_path, dirNode, name) ==
    LET e == f[Append(dirNode, name)]
        is_file == e.kind = "file"
    IN [name |-> name, path |-> join(directory_path, name),
        is_file |-> is_file, is_directory |-> e.kind = "dir",
        size |-> IF is_file THEN Some(Len(e.data)) ELSE None,
        last_modified |-> IF is_file THEN Some(Mtime) ELSE None]

\* the loop of list_files over os.scandir, which yields the children in
\* an order of the file system's choosing (scan)
RECURSIVE listLoop(_, _, _, _)
listLoop(directory_path, dirNode, scan, filter) ==
    IF scan = <<>> THEN <<>>
    ELSE LET name == Head(scan)
         IN (IF filter # None /\ filter[1] # <<>> /\ ~fnmatch(name, filter[1])
             THEN <<>>
             ELSE <<FileModel(fs, directory_path, dirNode, name)>>)
            \o listLoop(directory_path, dirNode, Tail(scan), filter)

list_files(directory_path, filter, scan) ==
    IF ~isdir(fs, directory_path) THEN NotADirectory
    ELSE ReturnEntries(listLoop(directory_path, resolve(fs, directory_path).node, scan, filter))

\* the orders os.scandir may yield the children of a directory in
scanOrders(f, directory_path) ==
    IF ~isdir(f, directory_path) THEN {<<>>}
    ELSE LET n == resolve(f, directory_path).node
             names == {c[Len(c)] : c \in childrenOf(f, n)}
         IN {s \in [1..Cardinality(names) -> names] :
                \A i, j \in DOMAIN s : i # j => s[i] # s[j]}

----------------------------------------------------------------------------
(* The mutating tools in two parts, the checks up to the existence test
   and the change of the file system, each on a file system given to it *)

\* the check step on file system f: the outcome when the tool returns or
\* raises here, NoValue when it goes on to act
toolCheck(f, op, path) ==
    LET g == check_allow_outside_modification(path)
    IN IF g # "pass" THEN guardOutcome(g, f).out
       ELSE IF op = "delete_file" /\ ~isfile(f, path) THEN Return(FALSE)
       ELSE IF op = "create_directory" /\ exists(f, path) THEN Return(FALSE)
       ELSE IF op = "delete_directory" /\ ~isdir(f, path) THEN Return(FALSE)
       ELSE NoValue

\* the change on file system f with no other thread running: open and
\* write, os.remove, os.makedirs or os.rmdir
toolAct(f, op, path, content) ==
    LET r == CASE op = "write_to_file" -> openWrite(f, path, "w", content)
               [] op = "delete_file" -> remove(f, path)
               [] op = "create_directory" -> makedirs(f, path)
               [] op = "delete_directory" -> rmdir(f, path)
    IN [out |-> IF r.err # "" THEN IOFailure ELSE Return(TRUE), fs |-> r.fs]

\* the whole call on file system f, nothing running in between
toolCall(f, op, path, content) ==
    LET c == toolCheck(f, op, path)
    IN IF c # NoValue THEN [out |-> c, fs |-> f] ELSE toolAct(f, op, path, content)

----------------------------------------------------------------------------
(* The modelled universe *)

W == <<"w">>
WE == <<"w", "e">>
E == <<"e">>
X == <<"x">>

\* /w is the working area and /w/x its one possible entry, /we is a
\* sibling whose name extends "w", /e is unrelated
Nodes == {<<W>>, <<W, X>>, <<WE>>, <<E>>}

\* the absolute path of a node, as os.getcwd() reports a directory
pathOf(n) == SlashStr \o joinSlash(n)

DotDotPath == <<"/", "w", "/", ".", ".", "/", "e">>

\* the path arguments the tools are called with: every node by its
\* absolute path, "x" relative to the working directory, and "/w/../e"
PathInputs == {pathOf(n) : n \in Nodes} \cup {X, DotDotPath}

\* length bound on the content of a file in the tree
MaxData == 1

\* what the tree specification writes, and what its files hold at the start
Contents == {<<"a">>}

InitEntries == {Absent, Dir, File(<<>>)}

\* no entry without a directory to hold it
WellFormed(f) ==
    \A n \in DOMAIN f : f[n].kind # "absent" => kindOf(f, parentOf(n)) = "dir"

\* the call stays inside the modelled tree: its target, read lexically,
\* is one of the nodes (a relative path under a removed working directory
\* names nothing)
InUniverse(path) ==
    \/ abspathRaises(path)
    \/ nodeOfAbs(abspath(path)) \in DOMAIN fs \cup {Root}

\* appending keeps the file within the length bound
AppendFits(path, content) ==
    LET r == resolve(fs, path)
    IN (r.st = "ok" /\ kindOf(fs, r.node) = "file")
           => Len(fs[r.node].data) + Len(content) <= MaxData

\* the tools that change the file system
MutOps == {"write_to_file", "delete_file", "create_directory", "delete_directory"}

\* the arguments a call may carry besides its path
NoArgs == [content |-> <<>>, append |-> FALSE,
           start_line |-> None, end_line |-> None,
           search_string |-> <<>>, case_sensitive |-> FALSE,
           filter |-> None]

Call(op, path, args, out) == [op |-> op, path |-> path, args |-> args, out |-> out]

NoCall == Call("none", <<>>, NoArgs, NoValue)

\* no call is running on another thread
NoTasks == [start |-> <<>>, thread |-> <<>>]

\* the working directory stays usable while its directory exists
stillLive(f) == cwdLive /\ kindOf(f, nodeOfAbs(cwd)) = "dir"

----------------------------------------------------------------------------
(* Steps *)

\* load_dotenv(), as MSAIAgentProps.create_from_env calls it: every
\* variable of the .env file that the process does not have yet is added
\* to its environment, the others keep their value
load_dotenv(env, dotenv) ==
    [name \in DOMAIN env |-> IF env[name] = None THEN dotenv[name] ELSE env[name]]

\* async_main, agent_util.py: chdir to the -d argument when it is a
\* directory, then export the flag, then create_from_env loads the .env
\* file; chdir leaves PWD as it was
async_main(working_directory, allow_outside_modifications, dotenv) ==
    [cwd |-> IF working_directory # <<>> /\ isdir(fs, working_directory)
             THEN pathOf(resolve(fs, working_directory).node)
             ELSE cwd,
     environ |-> load_dotenv(
                     [environ EXCEPT !["ALLOW_OUTSIDE_MODIFICATIONS"] =
                         Some(IF allow_outside_modifications THEN TrueStr ELSE FalseStr)],
                     dotenv)]

Launch(d, allow, dotenv) ==
    /\ phase = "start"
    /\ LET r == async_main(d, allow, dotenv)
       IN /\ cwd' = r.cwd
          /\ environ' = r.environ
    /\ phase' = "run"
    /\ UNCHANGED <<fs, cwdLive, ret, tasks>>

Mutate(op, path, args, r) ==
    /\ phase = "run"
    /\ InUniverse(path)
    /\ fs' = r.fs
    /\ cwdLive' = stillLive(r.fs)
    /\ ret' = Call(op, path, args, r.out)
    /\ UNCHANGED <<environ, cwd, phase, tasks>>

WriteToFile(p, c, a) ==
    Mutate("write_to_file", p, [NoArgs EXCEPT !.content = c, !.append = a],
           write_to_file(p, c, a))
DeleteFile(p) == Mutate("delete_file", p, NoArgs, delete_file(p))
CreateDirectory(p) == Mutate("create_directory", p, NoArgs, create_directory(p))
DeleteDirectory(p) == Mutate("delete_directory", p, NoArgs, delete_directory(p))

Query(op, path, args, out) ==
    /\ phase = "run"
    /\ ret' = Call(op, path, args, out)
    /\ UNCHANGED <<fs, environ, cwd, cwdLive, phase, tasks>>

ReadFile(p, s, e) ==
    Query("read_file", p, [NoArgs EXCEPT !.start_line = s, !.end_line = e],
          read_file(p, s, e))
GrepInFile(p, needle, cs) ==
    Query("grep_in_file", p,
          [NoArgs EXCEPT !.search_string = needle, !.case_sensitive = cs],
          grep_in_file(p, needle, cs))
ListFiles(p, g, scan) ==
    Query("list_files", p, [NoArgs EXCEPT !.filter = g], list_files(p, g, scan))

----------------------------------------------------------------------------
(* The tree specification: launcher, then mutating tool calls *)

\* the directory the process is started in
StartNodes == {<<W>>}

\* the -d arguments: none given ("."), a relative and an absolute path
WorkDirArgs == {Dot, X, pathOf(<<E>>)}

Init ==
    /\ fs \in {f \in [Nodes -> InitEntries] : WellFormed(f)}
    /\ cwd \in {pathOf(n) : n \in {m \in StartNodes : kindOf(fs, m) = "dir"}}
    /\ environ \in {[ALLOW_OUTSIDE_MODIFICATIONS |-> None, PWD |-> pw] :
                       pw \in {None, Some(cwd)}}
    /\ cwdLive = TRUE
    /\ phase = "start"
    /\ ret = NoCall
    /\ tasks = NoTasks

\* the .env file: without or with the flag, without PWD or with /w or /e
DotenvFiles ==
    {[ALLOW_OUTSIDE_MODIFICATIONS |-> fl, PWD |-> pw] :
        fl \in {None, Some(TrueStr)},
        pw \in {None, Some(pathOf(<<W>>)), Some(pathOf(<<E>>))}}

LaunchStep ==
    \E d \in WorkDirArgs, allow \in BOOLEAN, dotenv \in DotenvFiles :
        Launch(d, allow, dotenv)
WriteStep ==
    \E p \in PathInputs, c \in Contents, a \in BOOLEAN :
        /\ a => AppendFits(p, c)
        /\ WriteToFile(p, c, a)
DeleteFileStep == \E p \in PathInputs : DeleteFile(p)
CreateDirectoryStep == \E p \in PathInputs : CreateDirectory(p)
DeleteDirectoryStep == \E p \in PathInputs : DeleteDirectory(p)

Next ==
    \/ LaunchStep
    \/ WriteStep
    \/ DeleteFileStep
    \/ CreateDirectoryStep
    \/ DeleteDirectoryStep

Spec == Init /\ [][Next]_vars

----------------------------------------------------------------------------
(* The text specification: one file /w/x of any content, written whole,
   read by line range and searched *)

WorkDir == pathOf(<<W>>)
TextPath == pathOf(<<W, X>>)

\* number of terminated lines a file holds at the start
MaxLines == 3

\* largest line number passed to read_file
MaxLineArg == 4

LineBodies == {<<>>, <<"a">>, <<"A", "b">>}

\* every text of at most MaxLines terminated lines, with or without an
\* unterminated last line
TextLines == UNION {[1..n -> {Append(b, "\n") : b \in LineBodies}] : n \in 0..MaxLines}
Texts == {concat(ls) \o tail : ls \in TextLines, tail \in LineBodies}

\* what the text specification writes: empty, one word, a terminated
\* line, and contents with carriage returns
WriteContents ==
    {<<>>, <<"a">>, <<"a", "\n">>, <<"a", "\r", "\n", "A">>, <<"\r">>}

LineArgs == {None} \cup {Some(i) : i \in 1..MaxLineArg}

Needles == {<<>>, <<"a">>, <<"A">>, <<"a", "B">>, <<"b", "\n">>, <<"a", "a">>, <<"\r">>}

RunningIn(dir) ==
    /\ cwd = dir
    /\ environ = [ALLOW_OUTSIDE_MODIFICATIONS |-> Some(FalseStr), PWD |-> Some(dir)]
    /\ cwdLive = TRUE
    /\ phase = "run"
    /\ ret = NoCall

InitText ==
    /\ fs \in {[n \in {<<W>>, <<W, X>>} |-> IF n = <<W>> THEN Dir ELSE e] :
                  e \in {Absent} \cup {File(t) : t \in Texts}}
    /\ RunningIn(WorkDir)
    /\ tasks = NoTasks

TextWriteStep == \E c \in WriteContents : WriteToFile(TextPath, c, FALSE)
TextReadStep == \E s \in LineArgs, e \in LineArgs : ReadFile(TextPath, s, e)
TextGrepStep == \E needle \in Needles, cs \in BOOLEAN : GrepInFile(TextPath, needle, cs)

NextText ==
    \/ TextWriteStep
    \/ TextReadStep
    \/ TextGrepStep

SpecText == InitText /\ [][NextText]_vars

----------------------------------------------------------------------------
(* The listing specification: directory /w with any children among
   "a", "ab" and "b", listed with and without a filter *)

ChildNames == {<<"a">>, <<"a", "b">>, <<"b">>}

ListEntries == {Absent, Dir, File(<<>>), File(<<"a">>)}

Patterns ==
    {<<>>, <<"*">>, <<"a", "*">>, <<"?">>, <<"a", "b">>, <<"*", "b">>, <<"a", "?">>}

Filters == {None} \cup {Some(g) : g \in Patterns}

ListPaths == {WorkDir, pathOf(<<W, <<"a">>>>)}

InitList ==
    /\ fs \in [{<<W>>} \cup {<<W, c>> : c \in ChildNames} -> ListEntries]
    /\ fs[<<W>>] = Dir
    /\ RunningIn(WorkDir)
    /\ tasks = NoTasks

ListStep ==
    \E p \in ListPaths, g \in Filters :
        \E scan \in scanOrders(fs, p) : ListFiles(p, g, scan)

NextList == ListStep

SpecList == InitList /\ [][NextList]_vars

----------------------------------------------------------------------------
(* The environment specification: mutating tool calls interleaved with
   assignments to the two environment variables the check reads *)

\* os.environ[name] = value, or del os.environ[name] when value is None
Setenv(name, value) ==
    /\ phase = "run"
    /\ environ[name] # value
    /\ environ' = [environ EXCEPT ![name] = value]
    /\ UNCHANGED <<fs, cwd, cwdLive, phase, ret, tasks>>

\* values of ALLOW_OUTSIDE_MODIFICATIONS: unset, "true", "True", "false"
FlagValues == {None, Some(TrueStr), Some(<<"T", "r", "u", "e">>), Some(FalseStr)}

\* values of PWD: unset, /w, /e
RootValues == {None, Some(pathOf(<<W>>)), Some(pathOf(<<E>>))}

\* the paths the calls of this specification name: /w/x, /e and "x"
EnvPaths == {pathOf(<<W, X>>), pathOf(<<E>>), X}

\* the process runs in /w, which is empty, and nothing else exists
InitEnv ==
    /\ fs = [n \in Nodes |-> IF n = <<W>> THEN Dir ELSE Absent]
    /\ cwd = pathOf(<<W>>)
    /\ environ \in {[ALLOW_OUTSIDE_MODIFICATIONS |-> fl, PWD |-> pw] :
                       fl \in FlagValues, pw \in RootValues}
    /\ cwdLive = TRUE
    /\ phase = "run"
    /\ ret = NoCall
    /\ tasks = NoTasks

SetFlagStep == \E v \in FlagValues : Setenv("ALLOW_OUTSIDE_MODIFICATIONS", v)
SetRootStep == \E v \in RootValues : Setenv("PWD", v)
EnvWriteStep == \E p \in EnvPaths, c \in Contents : WriteToFile(p, c, FALSE)
EnvDeleteFileStep == \E p \in EnvPaths : DeleteFile(p)
EnvCreateDirectoryStep == \E p \in EnvPaths : CreateDirectory(p)
EnvDeleteDirectoryStep == \E p \in EnvPaths : DeleteDirectory(p)

NextEnv ==
    \/ SetFlagStep
    \/ SetRootStep
    \/ EnvWriteStep
    \/ EnvDeleteFileStep
    \/ EnvCreateDirectoryStep
    \/ EnvDeleteDirectoryStep

SpecEnv == InitEnv /\ [][NextEnv]_vars

----------------------------------------------------------------------------
(* The launch specification: the process is started in /w, async_main
   moves it to the -d directory, and the tools are then called with a
   relative path and with paths under /w and under /e *)

StartDir == pathOf(<<W>>)

LaunchNodes == {<<W>>, <<W, X>>, <<E>>, <<E, X>>}

\* "x", /w/x and /e/x
LaunchPaths == {X, pathOf(<<W, X>>), pathOf(<<E, X>>)}

\* /w and /e are directories; PWD is unset or, as a shell exports it,
\* the directory the process is started in
InitLaunch ==
    /\ fs \in {f \in [LaunchNodes -> {Absent, Dir, File(<<>>)}] :
                  f[<<W>>] = Dir /\ f[<<E>>] = Dir}
    /\ cwd = StartDir
    /\ environ \in {[ALLOW_OUTSIDE_MODIFICATIONS |-> None, PWD |-> pw] :
                       pw \in {None, Some(StartDir)}}
    /\ cwdLive = TRUE
    /\ phase = "start"
    /\ ret = NoCall
    /\ tasks = NoTasks

LaunchWriteStep == \E p \in LaunchPaths, c \in Contents : WriteToFile(p, c, FALSE)
LaunchDeleteFileStep == \E p \in LaunchPaths : DeleteFile(p)
LaunchCreateDirectoryStep == \E p \in LaunchPaths : CreateDirectory(p)
LaunchDeleteDirectoryStep == \E p \in LaunchPaths : DeleteDirectory(p)

NextLaunch ==
    \/ LaunchStep
    \/ LaunchWriteStep
    \/ LaunchDeleteFileStep
    \/ LaunchCreateDirectoryStep
    \/ LaunchDeleteDirectoryStep

SpecLaunch == InitLaunch /\ [][NextLaunch]_vars

----------------------------------------------------------------------------
(* The concurrent specification: two mutating calls on distinct paths
   under /w, each on its own thread, interleaved between any two of their
   system calls *)

A == <<"a">>
B == <<"b">>
C == <<"c">>

\* /w/a, /w/a/b and /w/c
ConcNodes == {<<W, A>>, <<W, A, B>>, <<W, C>>}

\* a call in progress on its thread: pc is the step it takes next, todo
\* the directories os.makedirs has still to make (the innermost last), fd
\* the node of the file write_to_file has opened
Thread(op, path, pc, out, todo, fd) ==
    [op |-> op, path |-> path, pc |-> pc, out |-> out, todo |-> todo, fd |-> fd]

\* what write_to_file writes in this specification
ConcContent == <<"a">>

NewThreads ==
    {Thread(op, pathOf(n), "check", NoValue, <<>>, Root) : op \in MutOps, n \in ConcNodes}

InitConc ==
    /\ fs \in {f \in [{<<W>>} \cup ConcNodes -> {Absent, Dir, File(<<>>)}] :
                  f[<<W>>] = Dir /\ WellFormed(f)}
    /\ RunningIn(WorkDir)
    /\ tasks \in {[start |-> fs, thread |-> p] :
                     p \in {q \in NewThreads \X NewThreads : q[1].path # q[2].path}}

\* the thread has returned or raised
Finished(t, out) == Thread(t.op, t.path, "done", out, <<>>, Root)

\* thread i runs the checks of its tool, up to the existence test; from
\* there write_to_file goes on to open, create_directory to os.makedirs
\* and the two deletions to their system call
Check(i) ==
    /\ tasks.thread[i].pc = "check"
    /\ LET t == tasks.thread[i]
           c == toolCheck(fs, t.op, t.path)
       IN tasks' = [tasks EXCEPT !.thread[i] =
                       IF c # NoValue THEN Finished(t, c)
                       ELSE IF t.op = "write_to_file"
                       THEN Thread(t.op, t.path, "open", NoValue, <<>>, Root)
                       ELSE IF t.op = "create_directory"
                       THEN Thread(t.op, t.path, "probe", NoValue, <<t.path>>, Root)
                       ELSE Thread(t.op, t.path, "act", NoValue, <<>>, Root)]
    /\ UNCHANGED <<fs, environ, cwd, cwdLive, phase, ret>>

\* write_to_file: open(file_path, 'w') creates or truncates the file
Open(i) ==
    /\ tasks.thread[i].pc = "open"
    /\ LET t == tasks.thread[i]
           r == openWrite(fs, t.path, "w", <<>>)
       IN /\ fs' = r.fs
          /\ cwdLive' = stillLive(r.fs)
          /\ tasks' = [tasks EXCEPT !.thread[i] =
                          IF r.err # "" THEN Finished(t, IOFailure)
                          ELSE Thread(t.op, t.path, "write", NoValue, <<>>,
                                      resolve(r.fs, t.path).node)]
    /\ UNCHANGED <<environ, cwd, phase, ret>>

\* write_to_file: file.write(content) and the close that ends the with
\* block put the content into the opened file, wherever it is by now
Flush(i) ==
    /\ tasks.thread[i].pc = "write"
    /\ LET t == tasks.thread[i]
       IN /\ fs' = IF kindOf(fs, t.fd) = "file"
                   THEN [fs EXCEPT ![t.fd] = File(encodeNewlines(ConcContent))]
                   ELSE fs
          /\ tasks' = [tasks EXCEPT !.thread[i] = Finished(t, Return(TRUE))]
    /\ UNCHANGED <<environ, cwd, cwdLive, phase, ret>>

\* os.makedirs(name) on its way up: a missing parent is taken on first
Probe(i) ==
    /\ tasks.thread[i].pc = "probe"
    /\ LET t == tasks.thread[i]
           name == t.todo[Len(t.todo)]
           s1 == pathSplit(name)
           s == IF s1.tail = <<>> THEN pathSplit(s1.head) ELSE s1
       IN tasks' = [tasks EXCEPT !.thread[i] =
                       IF s.head # <<>> /\ s.tail # <<>> /\ ~exists(fs, s.head)
                       THEN Thread(t.op, t.path, "probe", NoValue, Append(t.todo, s.head), Root)
                       ELSE Thread(t.op, t.path, "build", NoValue, t.todo, Root)]
    /\ UNCHANGED <<fs, environ, cwd, cwdLive, phase, ret>>

\* back in the calling makedirs after a parent was made: a name whose
\* tail is "." is finished without a mkdir of its own
RECURSIVE unwind(_)
unwind(todo) ==
    IF todo = <<>> THEN <<>>
    ELSE LET s1 == pathSplit(todo[Len(todo)])
             tail == IF s1.tail = <<>> THEN pathSplit(s1.head).tail ELSE s1.tail
         IN IF tail = Dot THEN unwind(SubSeq(todo, 1, Len(todo) - 1)) ELSE todo

\* os.makedirs(name) on its way down: one os.mkdir; a parent that exists
\* by now is tolerated, any other failure and an existing leaf raise
Build(i) ==
    /\ tasks.thread[i].pc = "build"
    /\ LET t == tasks.thread[i]
           name == t.todo[Len(t.todo)]
           r == mkdir(fs, name)
           rest == unwind(SubSeq(t.todo, 1, Len(t.todo) - 1))
       IN /\ fs' = r.fs
          /\ cwdLive' = stillLive(r.fs)
          /\ tasks' = [tasks EXCEPT !.thread[i] =
                          IF r.err = "" \/ (Len(t.todo) > 1 /\ r.err = "FileExistsError")
                          THEN (IF rest = <<>> THEN Finished(t, Return(TRUE))
                                ELSE Thread(t.op, t.path, "build", NoValue, rest, Root))
                          ELSE Finished(t, IOFailure)]
    /\ UNCHANGED <<environ, cwd, phase, ret>>

\* delete_file and delete_directory: os.remove, os.rmdir
Act(i) ==
    /\ tasks.thread[i].pc = "act"
    /\ LET t == tasks.thread[i]
           r == toolAct(fs, t.op, t.path, ConcContent)
       IN /\ fs' = r.fs
          /\ cwdLive' = stillLive(r.fs)
          /\ tasks' = [tasks EXCEPT !.thread[i] = Finished(t, r.out)]
    /\ UNCHANGED <<environ, cwd, phase, ret>>

CheckStep == \E i \in 1..2 : Check(i)
OpenStep == \E i \in 1..2 : Open(i)
FlushStep == \E i \in 1..2 : Flush(i)
ProbeStep == \E i \in 1..2 : Probe(i)
BuildStep == \E i \in 1..2 : Build(i)
ActStep == \E i \in 1..2 : Act(i)

NextConc ==
    \/ CheckStep
    \/ OpenStep
    \/ FlushStep
    \/ ProbeStep
    \/ BuildStep
    \/ ActStep

SpecConc == InitConc /\ [][NextConc]_vars

----------------------------------------------------------------------------
(* Vocabulary of the properties *)

\* the "allow outside modifications" flag is on: "true" in any letter case
FlagAllows ==
    /\ environ["ALLOW_OUTSIDE_MODIFICATIONS"] # None
    /\ lower(environ["ALLOW_OUTSIDE_MODIFICATIONS"][1]) = TrueStr

\* the boundary root: PWD from the environment, "." when it is unset
BoundaryRoot == IF environ["PWD"] = None THEN Dot ELSE environ["PWD"][1]

\* both the candidate and the root have an absolute form
HasAbsoluteForm(path) == cwdLive \/ (isabs(path) /\ isabs(BoundaryRoot))

IsPrefix(a, b) == Len(a) <= Len(b) /\ SubSeq(b, 1, Len(a)) = a

\* the candidate is the root or nested under it, name by name
UnderRoot(path) ==
    IsPrefix(nodeOfAbs(abspath(BoundaryRoot)), nodeOfAbs(abspath(path)))

IsMutation == phase = "run" /\ ret.op \in MutOps

Returned(v) == ret.out.tag = "return" /\ ret.out.val = v

----------------------------------------------------------------------------
(* The sandbox check: C1, C2, C3 *)

\* C1: with the flag disabled, a mutating call whose path, made absolute
\* and normalized, is neither the boundary root nor nested under it fails
\* with the sandbox violation -- in particular a sibling such as /we whose
\* name merely has the root /w as a string prefix.
C1_OutsideIsRejected ==
    (IsMutation /\ ~FlagAllows /\ HasAbsoluteForm(ret.path) /\ ~UnderRoot(ret.path))
        => ret.out = SandboxViolation

\* C2: a mutating call is never refused with the sandbox violation when
\* the flag is on, nor when its path is the boundary root or nested under it.
C2_InsideIsAuthorized ==
    (IsMutation /\ (FlagAllows \/ (HasAbsoluteForm(ret.path) /\ UnderRoot(ret.path))))
        => ret.out # SandboxViolation

\* a relative path under the root went through with the flag off
C2_Witness ==
    /\ IsMutation
    /\ ~FlagAllows
    /\ ~isabs(ret.path)
    /\ HasAbsoluteForm(ret.path)
    /\ UnderRoot(ret.path)
    /\ Returned(TRUE)

\* C3: whenever the sandbox check rejects the path of a mutating call, the
\* call raises the sandbox violation, whatever the target is, and the file
\* system after the call is the file system before it.
C3_ViolationFirst ==
    [][(phase = "run" /\ ret'.op \in MutOps
            /\ check_allow_outside_modification(ret'.path) = "ValueError")
        => (ret'.out = SandboxViolation /\ fs' = fs)]_vars

\* delete_file was refused on a file that exists
C3_Witness ==
    /\ IsMutation
    /\ ret.op = "delete_file"
    /\ ret.out = SandboxViolation
    /\ isfile(fs, ret.path)

----------------------------------------------------------------------------
(* Reading and searching: C4, C5, C6, C7 *)

IsRead == phase = "run" /\ ret.op = "read_file" /\ isfile(fs, ret.path)

\* the lines of the file the last call named, as text mode yields them
FileLines == readlines(fs, ret.path)

Min(a, b) == IF a <= b THEN a ELSE b

\* C4: for a file of n lines and bounds 1 <= startLine <= endLine <= n,
\* read_file returns exactly lines startLine..endLine, joined.
C4_ReadsExactRange ==
    (IsRead /\ ret.args.start_line # None /\ ret.args.end_line # None)
        => LET s == ret.args.start_line[1]
               e == ret.args.end_line[1]
           IN (1 <= s /\ s <= e /\ e <= Len(FileLines))
                  => /\ ret.out.tag = "return"
                     /\ ret.out.text = concat(SubSeq(FileLines, s, e))

\* C5: read_file never fails on out-of-range bounds: startLine beyond the
\* last line gives the empty string, endLine beyond the last line behaves
\* as endLine = n, and startLine > endLine (after clamping) gives the
\* empty string.
C5_OutOfRangeBounds ==
    IsRead
        => LET n == Len(FileLines)
               s == ret.args.start_line
               e == ret.args.end_line
           IN /\ ret.out.tag = "return"
              /\ (s # None /\ s[1] > n) => ret.out.text = <<>>
              /\ (e # None /\ e[1] > n)
                     => ret.out.text = read_file(ret.path, s, Some(n)).text
              /\ (s # None /\ e # None /\ s[1] > Min(e[1], n)) => ret.out.text = <<>>

\* C6: a successful write_to_file(f, c, append = False) followed by
\* read_file(f) without line bounds returns exactly c.
C6_WriteThenRead ==
    [][(/\ ret.op = "write_to_file"
        /\ ret.out.tag = "return"
        /\ ret.args.append = FALSE
        /\ ret'.op = "read_file"
        /\ ret'.path = ret.path
        /\ ret'.args.start_line = None
        /\ ret'.args.end_line = None)
        => (ret'.out.tag = "return" /\ ret'.out.text = ret.args.content)]_vars

\* the needle occurs in the line, letters compared without case unless
\* the search is case sensitive
Occurs(needle, line, case_sensitive) ==
    \E off \in 0..(Len(line) - Len(needle)) :
        \A j \in 1..Len(needle) :
            \/ line[off + j] = needle[j]
            \/ ~case_sensitive /\ lowerChar(line[off + j]) = lowerChar(needle[j])

\* the lines of the file as it is stored, each with the terminator it
\* has in the file ("\n", "\r\n" or "\r"), nothing translated
RECURSIVE storedLinesFrom(_, _)
storedLinesFrom(data, cur) ==
    IF data = <<>> THEN (IF cur = <<>> THEN <<>> ELSE <<cur>>)
    ELSE IF Head(data) = "\r" /\ Len(data) >= 2 /\ data[2] = "\n"
    THEN <<cur \o <<"\r", "\n">>>> \o storedLinesFrom(SubSeq(data, 3, Len(data)), <<>>)
    ELSE IF Head(data) \in {"\n", "\r"}
    THEN <<Append(cur, Head(data))>> \o storedLinesFrom(Tail(data), <<>>)
    ELSE storedLinesFrom(Tail(data), Append(cur, Head(data)))

\* the stored lines of the file the last call named
StoredLines == storedLinesFrom(fs[resolve(fs, ret.path).node].data, <<>>)

\* C7: grep_in_file returns one MatchedLine for each line of the file
\* that contains the needle (without regard to case when caseSensitive is
\* false) and none for the others, in strictly increasing 1-based line
\* order, each with the original unmodified line as content -- the line
\* as the file holds it, terminator included; the empty needle matches
\* every line.
C7_GrepExactLines ==
    (phase = "run" /\ ret.op = "grep_in_file" /\ isfile(fs, ret.path))
        => LET needle == ret.args.search_string
               cs == ret.args.case_sensitive
               res == ret.out.lines
               hits == {k \in 1..Len(StoredLines) : Occurs(needle, StoredLines[k], cs)}
           IN /\ ret.out.tag = "return"
              /\ Len(res) = Cardinality(hits)
              /\ {res[i].line_number : i \in DOMAIN res} = hits
              /\ \A i, j \in DOMAIN res : i < j => res[i].line_number < res[j].line_number
              /\ \A i \in DOMAIN res : res[i].content = StoredLines[res[i].line_number]
              /\ needle = <<>> => Len(res) = Len(StoredLines)

----------------------------------------------------------------------------
(* Soft failures and the non-empty directory: C8, C9 *)

\* C8: on an authorized path, create_directory on an existing path,
\* delete_file on anything but an existing regular file and
\* delete_directory on anything but an existing directory return False,
\* raise nothing and leave the file system as it was.
C8_SoftFailures ==
    [][(/\ phase = "run"
        /\ check_allow_outside_modification(ret'.path) = "pass"
        /\ \/ ret'.op = "create_directory" /\ exists(fs, ret'.path)
           \/ ret'.op = "delete_file" /\ ~isfile(fs, ret'.path)
           \/ ret'.op = "delete_directory" /\ ~isdir(fs, ret'.path))
        => (ret'.out = Return(FALSE) /\ fs' = fs)]_vars

\* create_directory answered False on a path that is a regular file
C8_Witness ==
    /\ IsMutation
    /\ ret.op = "create_directory"
    /\ Returned(FALSE)
    /\ isfile(fs, ret.path)

\* C9: delete_directory on an authorized, existing, non-empty directory
\* raises the I/O failure and leaves the directory and its contents in place.
C9_NonEmptyDirectory ==
    [][(/\ phase = "run"
        /\ ret'.op = "delete_directory"
        /\ check_allow_outside_modification(ret'.path) = "pass"
        /\ isdir(fs, ret'.path)
        /\ childrenOf(fs, resolve(fs, ret'.path).node) # {})
        => (ret'.out = IOFailure /\ fs' = fs)]_vars

\* delete_directory raised on a directory that still has an entry
C9_Witness ==
    /\ IsMutation
    /\ ret.op = "delete_directory"
    /\ ret.out = IOFailure
    /\ isdir(fs, ret.path)
    /\ childrenOf(fs, resolve(fs, ret.path).node) # {}

----------------------------------------------------------------------------
(* Listing: C10 *)

\* C10: list_files on an existing directory returns exactly one entry per
\* child whose name matches the filter whenever a filter is given (the
\* empty string included, which matches no name), every child when none
\* is given, and size and last_modified are both present for a regular
\* file and both absent otherwise.
C10_ListExactChildren ==
    (phase = "run" /\ ret.op = "list_files" /\ isdir(fs, ret.path))
        => LET d == resolve(fs, ret.path).node
               g == ret.args.filter
               kids == {c[Len(c)] : c \in childrenOf(fs, d)}
               wanted == IF g = None THEN kids ELSE {k \in kids : fnmatch(k, g[1])}
               res == ret.out.entries
           IN /\ ret.out.tag = "return"
              /\ Len(res) = Cardinality(wanted)
              /\ {res[i].name : i \in DOMAIN res} = wanted
              /\ \A i \in DOMAIN res :
                     LET file == fs[Append(d, res[i].name)].kind = "file"
                     IN /\ (res[i].size # None) <=> file
                        /\ (res[i].last_modified # None) <=> file

----------------------------------------------------------------------------
(* Configuration in force: C11 *)

\* the candidate's absolute path begins with the root's, character by character
SharesPrefix(path) == startswith(abspath(path), abspath(BoundaryRoot))

\* C11: every mutating call is judged by the flag and the root that the
\* environment holds when the call is made, whatever they were at earlier
\* calls: it is not refused when the flag is on or its path is under the
\* root, and it is refused when the flag is off and its path has nothing
\* of the root.
C11_ConfigurationInForce ==
    [][(phase = "run" /\ environ' = environ /\ ret'.op \in MutOps)
        => /\ (FlagAllows \/ (HasAbsoluteForm(ret'.path) /\ UnderRoot(ret'.path)))
                  => ret'.out # SandboxViolation
           /\ (~FlagAllows /\ HasAbsoluteForm(ret'.path) /\ ~SharesPrefix(ret'.path))
                  => ret'.out = SandboxViolation]_vars

\* /e, which only an authorized call can have made a file, is now refused
\* to delete_file: the configuration changed between the two calls
C11_Witness ==
    /\ IsMutation
    /\ ret.op = "delete_file"
    /\ ret.path = pathOf(<<E>>)
    /\ ret.out = SandboxViolation
    /\ isfile(fs, ret.path)

----------------------------------------------------------------------------
(* The root after the launcher's chdir: C12 *)

\* the path names the working directory or something below it
UnderWorkingDirectory(path) ==
    IsPrefix(nodeOfAbs(cwd), nodeOfAbs(abspath(path)))

\* the path names the directory the process was started in or something
\* below it
UnderStartDir(path) ==
    IsPrefix(nodeOfAbs(StartDir), nodeOfAbs(abspath(path)))

\* C12: once the launcher has moved the process to directory D with
\* outside modifications disabled, a mutating call on a path that resolves
\* to D or below it (a relative path in particular) is not refused, and a
\* call on a path under the start directory but outside D is refused.
C12_RootIsWorkingDirectory ==
    (IsMutation /\ ~FlagAllows /\ cwdLive)
        => /\ UnderWorkingDirectory(ret.path) => ret.out # SandboxViolation
           /\ (UnderStartDir(ret.path) /\ ~UnderWorkingDirectory(ret.path))
                  => ret.out = SandboxViolation

----------------------------------------------------------------------------
(* Line numbers of the searcher given to the reader: C13 *)

\* C13: when grep_in_file has returned a MatchedLine m for a file and
\* read_file is then called on the same file with startLine = endLine =
\* m.line_number, it returns exactly m.content.
C13_GrepThenRead ==
    [][(/\ ret.op = "grep_in_file"
        /\ ret.out.tag = "return"
        /\ ret'.op = "read_file"
        /\ ret'.path = ret.path
        /\ ret'.args.start_line # None
        /\ ret'.args.end_line = ret'.args.start_line)
        => \A i \in DOMAIN ret.out.lines :
               ret.out.lines[i].line_number = ret'.args.start_line[1]
                   => ret'.out = ReturnText(ret.out.lines[i].content)]_vars

----------------------------------------------------------------------------
(* Concurrent calls: C14 *)

\* the outcomes of the two calls run one after the other from file
\* system f, the call of thread i first
serialOutcomes(f, i) ==
    LET j == 3 - i
        ti == tasks.thread[i]
        tj == tasks.thread[j]
        ri == toolCall(f, ti.op, ti.path, ConcContent)
        rj == toolCall(ri.fs, tj.op, tj.path, ConcContent)
    IN [k \in {i, j} |-> IF k = i THEN ri.out ELSE rj.out]

\* C14: when two mutating calls on distinct authorized paths have both
\* finished, whatever the interleaving of their check and act steps, their
\* two outcomes are the outcomes of running them one after the other in
\* one of the two orders -- so create_directory(/w/a) next to
\* create_directory(/w/a/b) on an empty /w returns and does not raise.
C14_AsInSomeOrder ==
    (tasks # NoTasks /\ \A i \in 1..2 : tasks.thread[i].pc = "done")
        => \E i \in 1..2 :
               \A k \in 1..2 : tasks.thread[k].out = serialOutcomes(tasks.start, i)[k]

====
